---- MODULE Spec2Model ----
(***************************************************************************)
(* Model of the binary codecs of bip322-js: VarInt, VarStr, the Witness    *)
(* stack codec and the strict-DER script-signature decoder.                *)
(*                                                                         *)
(* Bytes are the integers 0..255.  A JavaScript number that may exceed     *)
(* 2^31 is kept as two limbs of 24 bits, [hi, lo], value = hi * 2^24 + lo. *)
(* Memory is a heap of ArrayBuffers; a Uint8Array is a view [buf,off,len]. *)
(***************************************************************************)
EXTENDS Integers, Sequences, FiniteSets, TLC

VARIABLES heap, pc, arg, ret, chain,
          witnessToDecode, witnessCount, i, witnessDecoded,
          decoded

vars == <<heap, pc, arg, ret, chain, witnessToDecode, witnessCount, i, witnessDecoded,
          decoded>>

(***************************************************************************)
(* Bounds of the model.                                                    *)
(***************************************************************************)
\* longest witness list built from the item pool
MaxItems == 2
\* longest run of trailing bytes appended to a serialized witness
MaxTrail == 2
\* every value 0..MaxSmall is an input of VarInt.encode, beside the tier boundaries
MaxSmall == 3

(***************************************************************************)
(* JavaScript values.                                                      *)
(***************************************************************************)
\* reading a typed array past its end yields undefined
Undefined == 0 - 1

Limb == 256 * 256 * 256

W(h, l) == [hi |-> h, lo |-> l]

\* NaN, as produced by undefined * multiplier
NaN == W(0 - 1, 0 - 1)

IsNaN(a) == a.hi < 0

\* a < b on numbers; any comparison with NaN is false
WLess(a, b) ==
    /\ ~IsNaN(a)
    /\ ~IsNaN(b)
    /\ (a.hi < b.hi \/ (a.hi = b.hi /\ a.lo < b.lo))

ToWide(n) == W(n \div Limb, n % Limb)

\* value & 0xff (ToInt32 keeps the low 32 bits, the mask the low 8)
AndFF(v) == v.lo % 256

\* Math.floor(value / 256)
FloorDiv256(v) == W(v.hi \div 256, (v.hi % 256) * 65536 + (v.lo \div 256))

\* b[k] on a byte sequence, k counted from 0
At(b, k) == IF k >= 0 /\ k < Len(b) THEN b[k + 1] ELSE Undefined

Zeros(n) == [k \in 1..n |-> 0]

\* every buffer cut short of s, and s itself
Prefixes(s) == {SubSeq(s, 1, n) : n \in 0..Len(s)}

(***************************************************************************)
(* VarInt                                                                  *)
(***************************************************************************)
Result(s, v) == [status |-> s, value |-> v]

\* the loop of encode's 0xff tier: 6 bytes little-endian
RECURSIVE WriteLoop(_, _)
WriteLoop(value, n) ==
    IF n = 0 THEN <<>>
    ELSE <<AndFF(value)>> \o WriteLoop(FloorDiv256(value), n - 1)

\* setUint16 without the littleEndian flag: big-endian
SetUint16BE(v) == <<(v.lo \div 256) % 256, v.lo % 256>>

\* DataView.setUint16(_, i, true)
SetUint16LE(v) == <<v.lo % 256, (v.lo \div 256) % 256>>

\* DataView.setUint32(_, i, true)
SetUint32LE(v) == <<v.lo % 256, (v.lo \div 256) % 256, (v.lo \div 65536) % 256, v.hi % 256>>

\* VarInt.encode with the first threshold inclusive: 0xFD is written as one byte
VarInt_encode_Inclusive(v) ==
    IF WLess(v, W(0, 254)) THEN Result("ok", <<v.lo>>)
    ELSE IF WLess(v, W(0, 65536)) THEN Result("ok", <<253>> \o SetUint16LE(v))
    ELSE IF WLess(v, W(256, 0)) THEN Result("ok", <<254>> \o SetUint32LE(v))
    ELSE IF WLess(v, W(Limb, 0)) THEN Result("ok", <<255>> \o WriteLoop(v, 6) \o <<0, 0>>)
    ELSE Result("ValueTooLarge", <<>>)

VarInt_encode(v) ==
    IF WLess(v, W(0, 253)) THEN Result("ok", <<v.lo>>)
    ELSE IF WLess(v, W(0, 65536)) THEN Result("ok", <<253>> \o SetUint16LE(v))
    ELSE IF WLess(v, W(256, 0)) THEN Result("ok", <<254>> \o SetUint32LE(v))
    ELSE IF WLess(v, W(Limb, 0)) THEN Result("ok", <<255>> \o WriteLoop(v, 6) \o <<0, 0>>)
    ELSE Result("ValueTooLarge", <<>>)

\* DataView.getUint16(offset, true): a RangeError when it reads past the view
readUInt16LE(b, offset) ==
    IF offset + 2 > Len(b) THEN Result("TruncatedInput", NaN)
    ELSE Result("ok", W(0, At(b, offset) + 256 * At(b, offset + 1)))

\* DataView.getUint32(offset, true): a RangeError when it reads past the view
readUInt32LE(b, offset) ==
    IF offset + 4 > Len(b) THEN Result("TruncatedInput", NaN)
    ELSE Result("ok", W(At(b, offset + 3),
                        At(b, offset) + 256 * At(b, offset + 1) + 65536 * At(b, offset + 2)))

\* value + byte * 256^k, NaN when the byte is undefined or value is NaN
AddScaled(value, byte, k) ==
    IF IsNaN(value) \/ byte = Undefined THEN NaN
    ELSE IF k = 0 THEN W(value.hi, value.lo + byte)
    ELSE IF k = 1 THEN W(value.hi, value.lo + byte * 256)
    ELSE IF k = 2 THEN W(value.hi, value.lo + byte * 65536)
    ELSE IF k = 3 THEN W(value.hi + byte, value.lo)
    ELSE IF k = 4 THEN W(value.hi + byte * 256, value.lo)
    ELSE W(value.hi + byte * 65536, value.lo)

\* the loop of readUIntLE: no bounds check, a missing byte reads as undefined
RECURSIVE ReadLoop(_, _, _, _, _)
ReadLoop(b, offset, length, k, value) ==
    IF k >= length THEN value
    ELSE ReadLoop(b, offset, length, k + 1, AddScaled(value, At(b, offset + k), k))

\* readUIntLE that stops one byte short
readUIntLE_Short(b, offset, length) ==
    Result("ok", ReadLoop(b, offset, length - 1, 0, W(0, 0)))

readUIntLE(b, offset, length) == Result("ok", ReadLoop(b, offset, length, 0, W(0, 0)))

VarInt_decode(b) ==
    IF Len(b) = 0 THEN Result("EmptyInput", NaN)
    ELSE IF b[1] = 253 THEN readUInt16LE(b, 1)
    ELSE IF b[1] = 254 THEN readUInt32LE(b, 1)
    ELSE IF b[1] = 255 THEN readUIntLE(b, 1, 6)
    ELSE Result("ok", W(0, b[1]))

(***************************************************************************)
(* Uint8Array views and the base64 helpers of BufferUtil.                  *)
(***************************************************************************)
View(b, o, l) == [buf |-> b, off |-> o, len |-> l]

\* a variable that holds no array
NoView == View(0, 0, 0)

\* the bytes a view shows
Bytes(h, v) == SubSeq(h[v.buf], v.off + 1, v.off + v.len)

\* relative index of subarray: negative counts from the end, clamped to 0..n
Clamp(x, n) ==
    IF x < 0 THEN (IF n + x < 0 THEN 0 ELSE n + x)
    ELSE IF x > n THEN n ELSE x

\* Uint8Array.subarray(begin, end): a view on the same ArrayBuffer, no copy
subarray(v, begin, end) ==
    LET s == Clamp(begin, v.len)
        e == Clamp(end, v.len)
    IN  View(v.buf, v.off + s, IF e > s THEN e - s ELSE 0)

\* BufferUtil.ensureBuffer: a Uint8Array is returned unchanged
ensureBuffer(v) == v

\* BufferUtil.concat / concatBytes: a new array holding the parts in order
concat(a, b) == a \o b

\* the '=' of base64, beside the alphabet 0..63
Pad == 32 + 32

Or0(x) == IF x = Undefined THEN 0 ELSE x

\* bytesToBase64: btoa of the binary string of the bytes
bytesToBase64(value) ==
    LET n == Len(value)
        Char(k) ==
            LET g  == (k - 1) \div 4
                j  == (k - 1) % 4
                b0 == Or0(At(value, 3 * g))
                b1 == Or0(At(value, 3 * g + 1))
                b2 == Or0(At(value, 3 * g + 2))
            IN  IF j = 0 THEN b0 \div 4
                ELSE IF j = 1 THEN (b0 % 4) * 16 + (b1 \div 16)
                ELSE IF j = 2 THEN (IF 3 * g + 1 >= n THEN Pad ELSE (b1 % 16) * 4 + (b2 \div 64))
                ELSE (IF 3 * g + 2 >= n THEN Pad ELSE b2 % 64)
    IN  [k \in 1..(4 * ((n + 2) \div 3)) |-> Char(k)]

\* base64ToBytes: charCodeAt over atob of the string
base64ToBytes(value) ==
    LET m   == Len(value)
        pad == Cardinality({k \in 1..m : value[k] = Pad})
        C(k) == IF value[k] = Pad THEN 0 ELSE value[k]
        Byte(k) ==
            LET g == (k - 1) \div 3
                j == (k - 1) % 3
            IN  IF j = 0 THEN C(4 * g + 1) * 4 + (C(4 * g + 2) \div 16)
                ELSE IF j = 1 THEN (C(4 * g + 2) % 16) * 16 + (C(4 * g + 3) \div 4)
                ELSE (C(4 * g + 3) % 4) * 64 + C(4 * g + 4)
    IN  [k \in 1..(3 * (m \div 4) - pad) |-> Byte(k)]

(***************************************************************************)
(* VarStr: VarInt(length) followed by the bytes.                           *)
(***************************************************************************)
\* bytes the tier named by a first byte takes
TierLength(first) ==
    IF first = 253 THEN 3 ELSE IF first = 254 THEN 5 ELSE IF first = 255 THEN 9 ELSE 1

VarStr_encode(s) ==
    LET h == VarInt_encode(ToWide(Len(s)))
    IN  IF h.status = "ok" THEN Result("ok", concat(h.value, s)) ELSE h

\* the place of the string in b: [status, off, len]
VarStr_decode(b) ==
    LET n == VarInt_decode(b)
    IN  IF n.status # "ok" THEN [status |-> n.status, off |-> 0, len |-> 0]
        ELSE IF \/ IsNaN(n.value)
                \/ n.value.hi > 0
                \/ Len(b) < TierLength(b[1]) + n.value.lo
             THEN [status |-> "TruncatedInput", off |-> 0, len |-> 0]
        ELSE [status |-> "ok", off |-> TierLength(b[1]), len |-> n.value.lo]

(***************************************************************************)
(* Witness                                                                 *)
(***************************************************************************)
\* witnesses.forEach over witnesses[lo..hi]: the VarStr of each, appended in
\* order (split in halves to bound the depth of evaluation)
RECURSIVE forEachWitness(_, _, _)
forEachWitness(witnesses, lo, hi) ==
    IF lo > hi THEN <<>>
    ELSE IF lo = hi THEN VarStr_encode(witnesses[lo]).value
    ELSE LET mid == (lo + hi) \div 2
         IN  concat(forEachWitness(witnesses, lo, mid),
                    forEachWitness(witnesses, mid + 1, hi))

\* the witness stack before it is base64 encoded
WitnessStack(witnesses) ==
    concat(VarInt_encode(ToWide(Len(witnesses))).value,
           forEachWitness(witnesses, 1, Len(witnesses)))

Witness_serialize(witnesses) == Result("ok", bytesToBase64(WitnessStack(witnesses)))

(***************************************************************************)
(* Inputs of the Witness calls.                                            *)
(***************************************************************************)
\* an item that needs the 0xFD tier for its length
BigItem == [k \in 1..253 |-> k % 256]

ItemPool == {<<>>, <<0>>, <<1, 2>>, BigItem}

Lists(S, n) == UNION {[1..m -> S] : m \in 0..n}

\* a list that needs the 0xFD tier for its count
ManyItems == [k \in 1..253 |-> IF k % 2 = 0 THEN <<>> ELSE <<k>>]

ItemLists == Lists(ItemPool, MaxItems) \cup {ManyItems}

Trails == Lists({1, 255}, MaxTrail)

RawInputs ==
    Prefixes(<<2, 2, 1, 2, 1, 0>>)
    \cup Prefixes(<<253, 1, 0, 1, 170>>)
    \cup Prefixes(<<1, 253, 1, 0, 170, 9>>)
    \cup Prefixes(<<255, 1, 0, 0, 0, 0, 0, 0, 0, 1, 7>>)
    \cup Prefixes(<<254, 2, 0, 0, 0, 1, 5, 0>>)
    \cup {<<253, 255, 255, 0>>, <<3, 2, 1>>, <<255, 0, 0, 0, 0, 1, 0, 0, 0, 0>>,
          SubSeq(WitnessStack(<<BigItem>>), 1, 200),
          SubSeq(WitnessStack(<<BigItem>>), 1, 256)}

(***************************************************************************)
(* Inputs of the VarInt calls.                                             *)
(***************************************************************************)
EncodeInputs ==
    {W(0, n) : n \in 0..MaxSmall}
    \cup {W(0, 252), W(0, 253), W(0, 254), W(0, 255), W(0, 256), W(0, 258),
          W(0, 65535), W(0, 65536), W(0, 65537), W(1, 131844),
          W(255, Limb - 1), W(256, 0), W(256, 1), W(66051, 263430),
          W(Limb - 1, Limb - 1), W(Limb, 0), W(Limb, 1), W(Limb + 5, 7)}

DecodeInputs ==
    Prefixes(<<253, 1, 0, 9>>) \cup Prefixes(<<253, 255, 255>>)
    \cup Prefixes(<<254, 1, 2, 3, 4, 9>>) \cup Prefixes(<<254, 0, 0, 1, 0>>)
    \cup Prefixes(<<255, 1, 2, 3, 4, 5, 6, 0, 0, 9>>)
    \cup Prefixes(<<255, 0, 0, 0, 0, 1, 0, 7, 7>>)
    \cup {<<0>>, <<1>>, <<252>>, <<252, 9>>, <<7, 8, 9>>}

(***************************************************************************)
(* Strict-DER script signature decoder.                                    *)
(***************************************************************************)
\* x & 0x80, with undefined read as 0
And80(x) == IF x >= 128 THEN 128 ELSE 0

\* x & ~0x80, with undefined read as 0
AndNot80(x) == IF x = Undefined THEN 0 ELSE IF x >= 128 THEN x - 128 ELSE x

\* new Uint8Array(n): a fresh zero-filled ArrayBuffer and the view on all of it
Alloc(h, n) == [heap |-> Append(h, Zeros(n)), view |-> View(Len(h) + 1, 0, n)]

\* target.set(source, offset): the bytes of source written into target's buffer
Set(h, target, source, offset) ==
    [h EXCEPT ![target.buf] =
        [k \in 1..Len(h[target.buf]) |->
            IF k > target.off + offset /\ k <= target.off + offset + Len(source)
            THEN source[k - target.off - offset]
            ELSE h[target.buf][k]]]

\* concatBytes(a, b): a new array, the bytes of a then those of b
concatBytes(h, a, b) ==
    LET new == Alloc(h, a.len + b.len)
        h1  == Set(new.heap, new.view, Bytes(h, a), 0)
    IN  [heap |-> Set(h1, new.view, Bytes(h, b), a.len), view |-> new.view]

\* fromDER that writes the integer at the start of the 32 bytes
fromDER_RightPad(h, x) ==
    LET data    == IF At(Bytes(h, x), 0) = 0 THEN subarray(x, 1, x.len) ELSE x
        buffer  == Alloc(h, 32)
        trimmed == IF data.len > 32 THEN subarray(data, data.len - 32, data.len) ELSE data
    IN  [heap |-> Set(buffer.heap, buffer.view, Bytes(h, trimmed), 0),
         view |-> buffer.view]

\* fromDER that clears the integer in the caller's buffer once it is copied
fromDER_Scrub(h, x) ==
    LET data    == IF At(Bytes(h, x), 0) = 0 THEN subarray(x, 1, x.len) ELSE x
        buffer  == Alloc(h, 32)
        trimmed == IF data.len > 32 THEN subarray(data, data.len - 32, data.len) ELSE data
        bstart  == 32 - trimmed.len
        copied  == Set(buffer.heap, buffer.view, Bytes(h, trimmed), bstart)
    IN  [heap |-> Set(copied, x, Zeros(x.len), 0), view |-> buffer.view]

fromDER(h, x) ==
    LET data    == IF At(Bytes(h, x), 0) = 0 THEN subarray(x, 1, x.len) ELSE x
        buffer  == Alloc(h, 32)
        trimmed == IF data.len > 32 THEN subarray(data, data.len - 32, data.len) ELSE data
        bstart  == 32 - trimmed.len
    IN  [heap |-> Set(buffer.heap, buffer.view, Bytes(h, trimmed), bstart),
         view |-> buffer.view]

\* a failed check of decode2: reads are the byte indices read up to the throw
DerFail(status, reads) ==
    [status |-> status, r |-> NoView, s |-> NoView, reads |-> reads]

\* decode2 with the sequence tag checked after the sequence length
decode2_Swapped(h, buffer) ==
    LET b     == Bytes(h, buffer)
        lenR  == At(b, 3)
        lenS  == At(b, 5 + lenR)
        rdR   == <<0, 1, 2, 3>>
        rdI   == rdR \o <<4 + lenR>>
        rdS   == rdI \o <<5 + lenR>>
        rdRn  == rdS \o <<4>>
        rdRp  == rdRn \o (IF lenR > 1
                          THEN <<4>> \o (IF At(b, 4) = 0 THEN <<5>> ELSE <<>>)
                          ELSE <<>>)
        rdSn  == rdRp \o <<lenR + 6>>
        rdSp  == rdSn \o (IF lenS > 1
                          THEN <<lenR + 6>>
                               \o (IF At(b, lenR + 6) = 0 THEN <<lenR + 7>> ELSE <<>>)
                          ELSE <<>>)
    IN  IF buffer.len < 8 THEN DerFail("TooShort", <<>>)
        ELSE IF buffer.len > 72 THEN DerFail("TooLong", <<>>)
        ELSE IF At(b, 1) # buffer.len - 2
             THEN DerFail("InvalidSequenceLength", <<1>>)
        ELSE IF At(b, 0) # 48 THEN DerFail("ExpectedSequence", <<1, 0>>)
        ELSE IF At(b, 2) # 2 THEN DerFail("ExpectedInteger", <<0, 1, 2>>)
        ELSE IF lenR = 0 THEN DerFail("RLengthZero", rdR)
        ELSE IF 5 + lenR >= buffer.len THEN DerFail("RLengthTooLong", rdR)
        ELSE IF At(b, 4 + lenR) # 2 THEN DerFail("ExpectedInteger2", rdI)
        ELSE IF lenS = 0 THEN DerFail("SLengthZero", rdS)
        ELSE IF 6 + lenR + lenS # buffer.len THEN DerFail("SLengthInvalid", rdS)
        ELSE IF And80(At(b, 4)) # 0 THEN DerFail("RNegative", rdRn)
        ELSE IF lenR > 1 /\ At(b, 4) = 0 /\ And80(At(b, 5)) = 0
             THEN DerFail("RExcessivelyPadded", rdRp)
        ELSE IF And80(At(b, lenR + 6)) # 0 THEN DerFail("SNegative", rdSn)
        ELSE IF lenS > 1 /\ At(b, lenR + 6) = 0 /\ And80(At(b, lenR + 7)) = 0
             THEN DerFail("SExcessivelyPadded", rdSp)
        ELSE [status |-> "ok",
              r |-> subarray(buffer, 4, 4 + lenR),
              s |-> subarray(buffer, 6 + lenR, buffer.len),
              reads |-> rdSp]

\* decode2 with an R length check that lets 5 + lenR equal the payload length
decode2_OffByOne(h, buffer) ==
    LET b     == Bytes(h, buffer)
        lenR  == At(b, 3)
        lenS  == At(b, 5 + lenR)
        rdR   == <<0, 1, 2, 3>>
        rdI   == rdR \o <<4 + lenR>>
        rdS   == rdI \o <<5 + lenR>>
        rdRn  == rdS \o <<4>>
        rdRp  == rdRn \o (IF lenR > 1
                          THEN <<4>> \o (IF At(b, 4) = 0 THEN <<5>> ELSE <<>>)
                          ELSE <<>>)
        rdSn  == rdRp \o <<lenR + 6>>
        rdSp  == rdSn \o (IF lenS > 1
                          THEN <<lenR + 6>>
                               \o (IF At(b, lenR + 6) = 0 THEN <<lenR + 7>> ELSE <<>>)
                          ELSE <<>>)
    IN  IF buffer.len < 8 THEN DerFail("TooShort", <<>>)
        ELSE IF buffer.len > 72 THEN DerFail("TooLong", <<>>)
        ELSE IF At(b, 0) # 48 THEN DerFail("ExpectedSequence", <<0>>)
        ELSE IF At(b, 1) # buffer.len - 2
             THEN DerFail("InvalidSequenceLength", <<0, 1>>)
        ELSE IF At(b, 2) # 2 THEN DerFail("ExpectedInteger", <<0, 1, 2>>)
        ELSE IF lenR = 0 THEN DerFail("RLengthZero", rdR)
        ELSE IF 5 + lenR > buffer.len THEN DerFail("RLengthTooLong", rdR)
        ELSE IF At(b, 4 + lenR) # 2 THEN DerFail("ExpectedInteger2", rdI)
        ELSE IF lenS = 0 THEN DerFail("SLengthZero", rdS)
        ELSE IF 6 + lenR + lenS # buffer.len THEN DerFail("SLengthInvalid", rdS)
        ELSE IF And80(At(b, 4)) # 0 THEN DerFail("RNegative", rdRn)
        ELSE IF lenR > 1 /\ At(b, 4) = 0 /\ And80(At(b, 5)) = 0
             THEN DerFail("RExcessivelyPadded", rdRp)
        ELSE IF And80(At(b, lenR + 6)) # 0 THEN DerFail("SNegative", rdSn)
        ELSE IF lenS > 1 /\ At(b, lenR + 6) = 0 /\ And80(At(b, lenR + 7)) = 0
             THEN DerFail("SExcessivelyPadded", rdSp)
        ELSE [status |-> "ok",
              r |-> subarray(buffer, 4, 4 + lenR),
              s |-> subarray(buffer, 6 + lenR, buffer.len),
              reads |-> rdSp]

\* decode2(buffer): the strict DER checks in the order of the code.  reads lists
\* the indices of buffer read, in the order read: the right operand of && is read
\* only when the left operand holds, and subarray reads no byte
decode2(h, buffer) ==
    LET b     == Bytes(h, buffer)
        lenR  == At(b, 3)
        lenS  == At(b, 5 + lenR)
        rdR   == <<0, 1, 2, 3>>
        rdI   == rdR \o <<4 + lenR>>
        rdS   == rdI \o <<5 + lenR>>
        rdRn  == rdS \o <<4>>
        rdRp  == rdRn \o (IF lenR > 1
                          THEN <<4>> \o (IF At(b, 4) = 0 THEN <<5>> ELSE <<>>)
                          ELSE <<>>)
        rdSn  == rdRp \o <<lenR + 6>>
        rdSp  == rdSn \o (IF lenS > 1
                          THEN <<lenR + 6>>
                               \o (IF At(b, lenR + 6) = 0 THEN <<lenR + 7>> ELSE <<>>)
                          ELSE <<>>)
    IN  IF buffer.len < 8 THEN DerFail("TooShort", <<>>)
        ELSE IF buffer.len > 72 THEN DerFail("TooLong", <<>>)
        ELSE IF At(b, 0) # 48 THEN DerFail("ExpectedSequence", <<0>>)
        ELSE IF At(b, 1) # buffer.len - 2
             THEN DerFail("InvalidSequenceLength", <<0, 1>>)
        ELSE IF At(b, 2) # 2 THEN DerFail("ExpectedInteger", <<0, 1, 2>>)
        ELSE IF lenR = 0 THEN DerFail("RLengthZero", rdR)
        ELSE IF 5 + lenR >= buffer.len THEN DerFail("RLengthTooLong", rdR)
        ELSE IF At(b, 4 + lenR) # 2 THEN DerFail("ExpectedInteger2", rdI)
        ELSE IF lenS = 0 THEN DerFail("SLengthZero", rdS)
        ELSE IF 6 + lenR + lenS # buffer.len THEN DerFail("SLengthInvalid", rdS)
        ELSE IF And80(At(b, 4)) # 0 THEN DerFail("RNegative", rdRn)
        ELSE IF lenR > 1 /\ At(b, 4) = 0 /\ And80(At(b, 5)) = 0
             THEN DerFail("RExcessivelyPadded", rdRp)
        ELSE IF And80(At(b, lenR + 6)) # 0 THEN DerFail("SNegative", rdSn)
        ELSE IF lenS > 1 /\ At(b, lenR + 6) = 0 /\ And80(At(b, lenR + 7)) = 0
             THEN DerFail("SExcessivelyPadded", rdSp)
        ELSE [status |-> "ok",
              r |-> subarray(buffer, 4, 4 + lenR),
              s |-> subarray(buffer, 6 + lenR, buffer.len),
              reads |-> rdSp]

\* no call of decode2 was made
NoDecoded == DerFail("none", <<>>)

\* [status, heap, value, decoded]: value is [signature, hashType] when status is
\* "ok", and decoded is what decode2 returned (the local of that name)
decodeScriptSignature(h, buffer) ==
    LET hashType    == At(Bytes(h, buffer), buffer.len - 1)
        hashTypeMod == AndNot80(hashType)
        der         == decode2(h, subarray(buffer, 0, 0 - 1))
        r           == fromDER(h, der.r)
        s           == fromDER(r.heap, der.s)
        signature   == concatBytes(s.heap, r.view, s.view)
    IN  IF hashTypeMod <= 0 \/ hashTypeMod >= 4
        THEN [status |-> "InvalidHashType", heap |-> h, value |-> <<>>,
              decoded |-> NoDecoded]
        ELSE IF der.status # "ok"
        THEN [status |-> der.status, heap |-> h, value |-> <<>>, decoded |-> der]
        ELSE [status |-> "ok", heap |-> signature.heap,
              value |-> [signature |-> signature.view, hashType |-> hashType],
              decoded |-> der]

(***************************************************************************)
(* Inputs of the signature decoder.                                        *)
(***************************************************************************)
\* the script signature of the integers R and S, as bytes, with a hash type
Der(R, S, hashType) ==
    <<48, 4 + Len(R) + Len(S), 2, Len(R)>> \o R \o <<2, Len(S)>> \o S \o <<hashType>>

Ramp(n, first) == [k \in 1..n |-> IF k = 1 THEN first ELSE (7 * k) % 256]

ValidSignatures ==
    {Der(<<1>>, <<1>>, 1), Der(<<1, 2>>, <<3, 4>>, 2), Der(<<0, 129>>, <<0, 200>>, 3),
     Der(<<127>>, <<0, 128, 0>>, 129), Der(Ramp(32, 5), Ramp(32, 127), 1),
     Der(<<0>> \o Ramp(32, 255), Ramp(31, 9), 130), Der(Ramp(20, 1), <<0>> \o Ramp(32, 128), 131),
     Der(Ramp(33, 1), Ramp(33, 2), 1), Der(Ramp(40, 3), <<5>>, 1),
     Der(<<0>> \o Ramp(35, 200), Ramp(30, 1), 1), Der(<<0>> \o Ramp(33, 128), <<1>>, 3)}

HashTypes == {0, 1, 2, 3, 4, 5, 127, 128, 129, 131, 132, 255}

MutationValues == {0, 1, 2, 3, 48, 127, 128, 129, 200, 255}

PairValues == {0, 2, 128}

\* b with the byte at place p (from 1) replaced by v
Mutate(b, p, v) == [b EXCEPT ![p] = v]

SmallSignatures == {Der(<<1, 2>>, <<3, 4>>, 1), Der(<<0, 129>>, <<0, 200>>, 1)}

SigInputs ==
    ValidSignatures
    \cup {Der(<<1, 2>>, <<3, 4>>, t) : t \in HashTypes}
    \cup {Mutate(b, p, v) : b \in SmallSignatures, p \in 1..11, v \in MutationValues}
    \cup {Mutate(Mutate(Der(<<0, 129>>, <<0, 200>>, 1), p, v), q, w) :
              p \in 1..11, q \in 1..11, v \in PairValues, w \in PairValues}
    \cup Prefixes(Der(<<1>>, <<1>>, 1))
    \cup {Der(Ramp(33, 1), Ramp(34, 2), 1), Der(Ramp(33, 1), Ramp(34, 2), 0),
          <<48, 6, 2, 1, 1, 2, 1, 1, 9, 1>>, Zeros(73) \o <<1>>, Zeros(74),
          <<48, 6, 2, 3, 1, 1, 1, 2, 1>>, <<48, 7, 2, 3, 1, 1, 1, 2, 1, 1>>}

(***************************************************************************)
(* State machine: a caller that makes one call at a time.                  *)
(***************************************************************************)
Call(op, input) == [op |-> op, input |-> input]

Return(op, r) == [op |-> op, status |-> r.status, value |-> r.value]

Init ==
    /\ heap = <<>>
    /\ pc = "idle"
    /\ arg = Call("none", <<>>)
    /\ ret = Return("none", Result("none", <<>>))
    /\ chain = <<>>
    /\ witnessToDecode = NoView
    /\ witnessCount = W(0, 0)
    /\ i = 0
    /\ witnessDecoded = <<>>
    /\ decoded = NoDecoded

Locals == <<witnessToDecode, witnessCount, i, witnessDecoded>>

\* a call on fresh input is made from the state after construction: the calls
\* share no state, so the same call made after another call ends in the same state
Fresh == pc = "idle" /\ ret.op = "none"

\* VarInt.encode(v) on a fresh input
Encode ==
    /\ Fresh
    /\ \E v \in EncodeInputs :
        /\ arg' = Call("encode", v)
        /\ ret' = Return("encode", VarInt_encode(v))
    /\ heap' = <<>>
    /\ chain' = <<>>
    /\ UNCHANGED <<pc, Locals, decoded>>

\* VarInt.decode(b) on a fresh caller buffer
Decode ==
    /\ Fresh
    /\ \E b \in DecodeInputs :
        /\ heap' = <<b>>
        /\ arg' = Call("decode", b)
        /\ ret' = Return("decode", VarInt_decode(b))
    /\ chain' = <<>>
    /\ UNCHANGED <<pc, Locals, decoded>>

\* VarInt.decode applied to the bytes the previous encode returned
DecodeEncoded ==
    /\ pc = "idle"
    /\ ret.op = "encode"
    /\ ret.status = "ok"
    /\ Len(chain) < 2
    /\ heap' = <<ret.value>>
    /\ arg' = Call("decode", ret.value)
    /\ ret' = Return("decode", VarInt_decode(ret.value))
    /\ chain' = Append(chain, [arg |-> arg, ret |-> ret])
    /\ UNCHANGED <<pc, Locals, decoded>>

\* VarInt.encode applied to the number the previous decode returned
EncodeDecoded ==
    /\ pc = "idle"
    /\ ret.op = "decode"
    /\ ret.status = "ok"
    /\ Len(chain) < 2
    /\ heap' = <<>>
    /\ arg' = Call("encode", ret.value)
    /\ ret' = Return("encode", VarInt_encode(ret.value))
    /\ chain' = Append(chain, [arg |-> arg, ret |-> ret])
    /\ UNCHANGED <<pc, Locals, decoded>>

\* Witness.serialize(items)
Serialize ==
    /\ Fresh
    /\ \E items \in ItemLists :
        /\ arg' = Call("serialize", items)
        /\ ret' = Return("serialize", Witness_serialize(items))
    /\ heap' = <<>>
    /\ chain' = <<>>
    /\ UNCHANGED <<pc, Locals, decoded>>

Fail(op, status) == Return(op, Result(status, <<>>))

ResetLocals ==
    /\ witnessToDecode' = NoView
    /\ witnessCount' = W(0, 0)
    /\ i' = 0
    /\ witnessDecoded' = <<>>

\* Witness.deserialize up to its loop: type is "string" or "bytes", and data the
\* characters or the bytes given; the buffer decoded is heap[1]
deserializeBegin(type, data) ==
    LET buffer == IF type = "string" THEN base64ToBytes(data) ELSE data
        whole  == View(1, 0, Len(buffer))
        count  == VarInt_decode(buffer)
        header == VarInt_encode(count.value)
    IN  /\ heap' = <<buffer>>
        /\ arg' = Call("deserialize", [type |-> type, data |-> data])
        /\ UNCHANGED decoded
        /\ IF count.status # "ok"
           THEN /\ ret' = Fail("deserialize", count.status)
                /\ UNCHANGED <<pc, Locals>>
           ELSE IF header.status # "ok"
           THEN /\ ret' = Fail("deserialize", header.status)
                /\ UNCHANGED <<pc, Locals>>
           ELSE /\ ret' = Return("deserialize", Result("running", <<>>))
                /\ pc' = "loop"
                /\ witnessCount' = count.value
                /\ witnessToDecode' =
                       ensureBuffer(subarray(whole, Len(header.value), whole.len))
                /\ i' = 0
                /\ witnessDecoded' = <<>>

\* Witness.deserialize on fresh raw bytes
Deserialize ==
    /\ Fresh
    /\ \E b \in RawInputs : deserializeBegin("bytes", b)
    /\ chain' = <<>>

\* Witness.deserialize on the string the previous serialize returned
DeserializeSerialized ==
    /\ pc = "idle"
    /\ ret.op = "serialize"
    /\ deserializeBegin("string", ret.value)
    /\ chain' = <<[arg |-> arg, ret |-> ret]>>

\* Witness.deserialize on the raw bytes of the previous serialize, then t
DeserializeTrailing ==
    /\ pc = "idle"
    /\ ret.op = "serialize"
    /\ \E t \in Trails : deserializeBegin("bytes", base64ToBytes(ret.value) \o t)
    /\ chain' = <<[arg |-> arg, ret |-> ret]>>

\* one turn of the loop of Witness.deserialize
DeserializeItem ==
    /\ pc = "loop"
    /\ WLess(ToWide(i), witnessCount)
    /\ LET found == VarStr_decode(Bytes(heap, witnessToDecode))
           witness == subarray(witnessToDecode, found.off, found.off + found.len)
           witnessLength == Len(VarStr_encode(Bytes(heap, witness)).value)
       IN  IF found.status # "ok"
           THEN /\ ret' = Fail("deserialize", found.status)
                /\ pc' = "idle"
                /\ ResetLocals
           ELSE /\ witnessDecoded' = Append(witnessDecoded, witness)
                /\ witnessToDecode' =
                       ensureBuffer(subarray(witnessToDecode, witnessLength,
                                             witnessToDecode.len))
                /\ i' = i + 1
                /\ UNCHANGED <<pc, ret, witnessCount>>
    /\ UNCHANGED <<heap, arg, chain, decoded>>

\* a return that rejects a buffer with bytes left after the last item
DeserializeReturnStrict ==
    /\ pc = "loop"
    /\ ~WLess(ToWide(i), witnessCount)
    /\ ret' = IF witnessToDecode.len > 0
              THEN Fail("deserialize", "TrailingBytes")
              ELSE Return("deserialize", Result("ok", witnessDecoded))
    /\ pc' = "idle"
    /\ ResetLocals
    /\ UNCHANGED <<heap, arg, chain, decoded>>

\* the return of Witness.deserialize
DeserializeReturn ==
    /\ pc = "loop"
    /\ ~WLess(ToWide(i), witnessCount)
    /\ ret' = Return("deserialize", Result("ok", witnessDecoded))
    /\ pc' = "idle"
    /\ ResetLocals
    /\ UNCHANGED <<heap, arg, chain, decoded>>

\* decodeScriptSignature(buffer) on a fresh caller buffer, which is heap[1]
DecodeSignature ==
    /\ Fresh
    /\ \E b \in SigInputs :
        LET out == decodeScriptSignature(<<b>>, View(1, 0, Len(b)))
        IN  /\ heap' = out.heap
            /\ arg' = Call("decodeScriptSignature", b)
            /\ ret' = Return("decodeScriptSignature", out)
            /\ decoded' = out.decoded
    /\ chain' = <<>>
    /\ UNCHANGED <<pc, Locals>>

\* the caller writes one byte of the signature the previous call returned
WriteSignature ==
    /\ pc = "idle"
    /\ ret.op = "decodeScriptSignature"
    /\ ret.status = "ok"
    /\ Len(chain) = 0
    /\ \E k \in {0, 31, 32, 63}, v \in {0, 255} :
        /\ heap' = Set(heap, ret.value.signature, <<v>>, k)
        /\ chain' = <<[arg |-> Call("write", <<k, v>>), ret |-> ret]>>
    /\ UNCHANGED <<pc, arg, ret, Locals, decoded>>

Next ==
    \/ Encode
    \/ Decode
    \/ DecodeEncoded
    \/ EncodeDecoded
    \/ Serialize
    \/ Deserialize
    \/ DeserializeSerialized
    \/ DeserializeTrailing
    \/ DeserializeItem
    \/ DeserializeReturn
    \/ DecodeSignature
    \/ WriteSignature

Spec == Init /\ [][Next]_vars

(***************************************************************************)
(* VarInt claims.                                                          *)
(***************************************************************************)
\* the k-th little-endian byte of a number, k in 0..5
ByteOf(v, k) ==
    IF k = 0 THEN v.lo % 256
    ELSE IF k = 1 THEN (v.lo \div 256) % 256
    ELSE IF k = 2 THEN v.lo \div 65536
    ELSE IF k = 3 THEN v.hi % 256
    ELSE IF k = 4 THEN (v.hi \div 256) % 256
    ELSE (v.hi \div 65536) % 256

LittleEndian(v, n) == [k \in 1..n |-> ByteOf(v, k - 1)]

\* the tier of a number: 1, 2, 3, 4, or 5 when it is 2^48 or more
TierOf(v) ==
    IF v.hi = 0 /\ v.lo <= 252 THEN 1
    ELSE IF v.hi = 0 /\ v.lo <= 65535 THEN 2
    ELSE IF v.hi <= 255 THEN 3
    ELSE IF v.hi <= Limb - 1 THEN 4
    ELSE 5

TierTable(v) ==
    CASE TierOf(v) = 1 -> Result("ok", <<v.lo>>)
      [] TierOf(v) = 2 -> Result("ok", <<253>> \o LittleEndian(v, 2))
      [] TierOf(v) = 3 -> Result("ok", <<254>> \o LittleEndian(v, 4))
      [] TierOf(v) = 4 -> Result("ok", <<255>> \o LittleEndian(v, 6) \o <<0, 0>>)
      [] TierOf(v) = 5 -> Result("ValueTooLarge", <<>>)

\* C2: VarInt.encode follows the tier table: 1 byte below 0xFD, 0xFD + 2 bytes
\* below 0x10000, 0xFE + 4 bytes below 0x100000000, 0xFF + 6 bytes + 2 zero bytes
\* below 2^48, all little-endian, and ValueTooLarge with no bytes from 2^48 on;
\* every boundary value takes the larger tier.
C2_EncodeTierTable ==
    (ret.op = "encode" /\ ~IsNaN(arg.input)) =>
        /\ ret.status = TierTable(arg.input).status
        /\ ret.value = TierTable(arg.input).value

\* encode(0x100000000) has returned its 9 bytes
C2_Witness ==
    /\ ret.op = "encode"
    /\ arg.input = W(256, 0)
    /\ ret.value = <<255, 0, 0, 0, 0, 1, 0, 0, 0>>

\* C3: decode(encode(i)) = i for every i below 2^48, and encode(decode(x)) = x
\* for every x that encode produced.
C3_VarIntRoundTrip ==
    /\ (/\ ret.op = "decode"
        /\ Len(chain) >= 1
        /\ chain[Len(chain)].ret.op = "encode")
       => (ret.status = "ok" /\ ret.value = chain[Len(chain)].arg.input)
    /\ (/\ ret.op = "encode"
        /\ Len(chain) = 2
        /\ chain[1].ret.op = "encode")
       => (ret.status = "ok" /\ ret.value = chain[2].arg.input)

\* 0xFFFFFFFFFFFF was encoded, decoded, and encoded again
C3_Witness ==
    /\ ret.op = "encode"
    /\ Len(chain) = 2
    /\ chain[1].ret.op = "encode"
    /\ chain[1].arg.input = W(Limb - 1, Limb - 1)
    /\ ret.value = <<255, 255, 255, 255, 255, 255, 255, 0, 0>>

\* C6: VarInt.decode fails with EmptyInput on a zero-length buffer and with
\* TruncatedInput on every non-empty buffer shorter than its first byte's tier
\* requires (3 bytes for 0xFD, 5 for 0xFE, 9 for 0xFF).
C6_DecodeLengthErrors ==
    ret.op = "decode" =>
        /\ Len(arg.input) = 0 => ret.status = "EmptyInput"
        /\ (Len(arg.input) > 0 /\ Len(arg.input) < TierLength(arg.input[1]))
           => ret.status = "TruncatedInput"

(***************************************************************************)
(* Witness claims.                                                         *)
(***************************************************************************)
\* the byte strings that a list of views shows
ItemsOf(h, views) == [k \in 1..Len(views) |-> Bytes(h, views[k])]

\* a deserialize call has ended whose input came from the previous serialize
AfterRoundTrip(type) ==
    /\ pc = "idle"
    /\ ret.op = "deserialize"
    /\ arg.input.type = type
    /\ Len(chain) = 1
    /\ chain[1].ret.op = "serialize"

\* C1: deserialize(serialize(items)) returns a list of the same length whose k-th
\* element equals items[k] byte for byte, for every list of byte strings.
C1_WitnessRoundTrip ==
    AfterRoundTrip("string") =>
        /\ ret.status = "ok"
        /\ ItemsOf(heap, ret.value) = chain[1].arg.input

\* a list with a 253-byte item, twice, has made the round trip
C1_Witness ==
    /\ AfterRoundTrip("string")
    /\ chain[1].arg.input = <<BigItem, BigItem>>
    /\ Len(ret.value) = 2

\* C10: deserialize of the raw bytes of serialize(items) followed by any bytes t
\* succeeds and returns exactly items.
C10_TrailingBytesIgnored ==
    AfterRoundTrip("bytes") =>
        /\ ret.status = "ok"
        /\ ItemsOf(heap, ret.value) = chain[1].arg.input

\* two trailing bytes, the first one reading as a further item header
C10_Witness ==
    /\ AfterRoundTrip("bytes")
    /\ chain[1].arg.input = <<<<1, 2>>, <<>>>>
    /\ arg.input.data = <<2, 2, 1, 2, 0, 1, 255>>
    /\ ret.status = "ok"

\* a length header at position pos of b, read by its tier: whether it is there
\* in full, its size, and its value (Limb stands for any value of 2^24 or more)
Header(b, pos) ==
    LET first == At(b, pos)
        size  == TierLength(first)
        low   == At(b, pos + 1) + 256 * At(b, pos + 2) + 65536 * At(b, pos + 3)
    IN  [ok    |-> pos + size <= Len(b),
         size  |-> size,
         value |-> IF pos + size > Len(b) THEN 0
                   ELSE IF size = 1 THEN first
                   ELSE IF size = 3 THEN At(b, pos + 1) + 256 * At(b, pos + 2)
                   ELSE IF size = 5 THEN (IF At(b, pos + 4) > 0 THEN Limb ELSE low)
                   ELSE (IF At(b, pos + 4) + At(b, pos + 5) + At(b, pos + 6) > 0
                         THEN Limb ELSE low)]

\* n more items, header and payload, lie in b from position pos
RECURSIVE ItemsPresent(_, _, _)
ItemsPresent(b, pos, n) ==
    IF n = 0 THEN TRUE
    ELSE LET h == Header(b, pos)
         IN  /\ pos < Len(b)
             /\ h.ok
             /\ pos + h.size + h.value <= Len(b)
             /\ ItemsPresent(b, pos + h.size + h.value, n - 1)

\* b holds its count header and every item the header declares
Complete(b) ==
    /\ Len(b) > 0
    /\ Header(b, 0).ok
    /\ ItemsPresent(b, Header(b, 0).size, Header(b, 0).value)

\* C7: deserialize fails with TruncatedInput, returning no list, on every buffer
\* that ends before all declared items, header and payload, have been read.
C7_TruncatedWitnessFails ==
    (/\ pc = "idle"
     /\ ret.op = "deserialize"
     /\ arg.input.type = "bytes"
     /\ Len(chain) = 0
     /\ Len(arg.input.data) > 0
     /\ ~Complete(arg.input.data))
    => (ret.status = "TruncatedInput" /\ ret.value = <<>>)

\* C9: deserialize starts the first item right after the bytes of the count
\* VarInt (1, 3, 5 or 9 by its first byte) and each next item right after the
\* previous item's header and payload, also when a header is in a larger tier
\* than its value needs.
C9_CursorAdvancement ==
    pc = "loop" =>
        /\ i = 0 => witnessToDecode.off = TierLength(heap[1][1])
        /\ i > 0 => witnessToDecode.off =
                        witnessDecoded[i].off + witnessDecoded[i].len

(***************************************************************************)
(* Signature decoder claims.                                               *)
(***************************************************************************)
\* the payload of a script signature: all but its last byte
Payload(b) == SubSeq(b, 1, Len(b) - 1)

\* the checks in their order: each is <<error, whether b violates it>>
Checks(b) ==
    LET p    == Payload(b)
        n    == Len(p)
        last == At(b, Len(b) - 1)
        lenR == At(p, 3)
        lenS == At(p, 5 + lenR)
    IN  << <<"InvalidHashType", ~(last # Undefined /\ last % 128 \in 1..3)>>,
           <<"TooShort", n < 8>>,
           <<"TooLong", n > 72>>,
           <<"ExpectedSequence", At(p, 0) # 48>>,
           <<"InvalidSequenceLength", At(p, 1) # n - 2>>,
           <<"ExpectedInteger", At(p, 2) # 2>>,
           <<"RLengthZero", lenR = 0>>,
           <<"RLengthTooLong", 5 + lenR >= n>>,
           <<"ExpectedInteger2", At(p, 4 + lenR) # 2>>,
           <<"SLengthZero", lenS = 0>>,
           <<"SLengthInvalid", 6 + lenR + lenS # n>>,
           <<"RNegative", At(p, 4) >= 128>>,
           <<"RExcessivelyPadded", lenR > 1 /\ At(p, 4) = 0 /\ At(p, 5) < 128>>,
           <<"SNegative", At(p, 6 + lenR) >= 128>>,
           <<"SExcessivelyPadded",
             lenS > 1 /\ At(p, 6 + lenR) = 0 /\ At(p, 7 + lenR) < 128>> >>

Violated(b) == {k \in 1..Len(Checks(b)) : Checks(b)[k][2]}

\* the error of the first check that b violates, or "ok"
FirstViolation(b) ==
    IF Violated(b) = {} THEN "ok"
    ELSE Checks(b)[CHOOSE k \in Violated(b) : \A m \in Violated(b) : k <= m][1]

\* C4: decodeScriptSignature fails with exactly the error of the first check, in
\* the fixed order InvalidHashType, TooShort, TooLong, ExpectedSequence,
\* InvalidSequenceLength, ExpectedInteger, RLengthZero, RLengthTooLong,
\* ExpectedInteger2, SLengthZero, SLengthInvalid, RNegative, RExcessivelyPadded,
\* SNegative, SExcessivelyPadded, that the input violates, and succeeds if and
\* only if the input violates none.
C4_StrictDerCheckOrder ==
    ret.op = "decodeScriptSignature" => ret.status = FirstViolation(arg.input)

\* an input that violates two checks has failed with the earlier one
C4_Witness ==
    /\ ret.op = "decodeScriptSignature"
    /\ arg.input = <<0, 8, 2, 2, 0, 129, 2, 2, 0, 200, 0>>
    /\ ret.status = "InvalidHashType"

\* an integer as 32 bytes: one leading 0x00 removed, then the low 32 bytes,
\* left-padded with zeros
Fixed32(x) ==
    LET d == IF Len(x) > 0 /\ x[1] = 0 THEN Tail(x) ELSE x
    IN  IF Len(d) >= 32 THEN SubSeq(d, Len(d) - 31, Len(d))
        ELSE Zeros(32 - Len(d)) \o d

\* C5: an accepted input returns a 64-byte signature, Fixed32 of
\* R = payload[4 : 4+lenR] followed by Fixed32 of S = payload[6+lenR : 6+lenR+lenS],
\* and the input's last byte, unchanged, as hashType.
C5_StrictDerResult ==
    (ret.op = "decodeScriptSignature" /\ ret.status = "ok" /\ Len(chain) = 0) =>
        LET p    == Payload(arg.input)
            lenR == p[4]
            lenS == p[6 + lenR]
        IN  /\ ret.value.signature.len = 64
            /\ Bytes(heap, ret.value.signature) =
                   Fixed32(SubSeq(p, 5, 4 + lenR))
                   \o Fixed32(SubSeq(p, 7 + lenR, 6 + lenR + lenS))
            /\ ret.value.hashType = arg.input[Len(arg.input)]

\* a 40-byte R was cut to its low 32 bytes, and the hash type kept
C5_Witness ==
    /\ ret.op = "decodeScriptSignature"
    /\ ret.status = "ok"
    /\ Len(chain) = 0
    /\ arg.input = Der(Ramp(40, 3), <<5>>, 1)
    /\ Bytes(heap, ret.value.signature) = SubSeq(Ramp(40, 3), 9, 40) \o Zeros(31) \o <<5>>

\* C8: the caller's input buffer of VarInt.decode, Witness.deserialize (raw
\* bytes) and decodeScriptSignature holds the same bytes after the call as
\* before, and a write to a returned signature does not change it.
C8_CallerBufferUnchanged ==
    /\ arg.op \in {"decode", "decodeScriptSignature"} => heap[1] = arg.input
    /\ (arg.op = "deserialize" /\ arg.input.type = "bytes") => heap[1] = arg.input.data

\* the caller has written into a returned signature
C8_Witness ==
    /\ ret.op = "decodeScriptSignature"
    /\ ret.status = "ok"
    /\ Len(chain) = 1
    /\ chain[1].arg.input = <<0, 255>>
    /\ Bytes(heap, ret.value.signature)[1] = 255

\* C11: every byte index that a check of decode2 reads (0, 1, 2, 3, 4, 5,
\* 4+lenR, 5+lenR, 6+lenR, 7+lenR) is, when it is read, at least 0 and strictly
\* less than the length of the payload, and when the payload is accepted the R
\* and S slices lie inside the payload, R at offset 4 with length lenR and S at
\* offset 6+lenR with length lenS.
C11_DerReadsInBounds ==
    (ret.op = "decodeScriptSignature" /\ decoded.status # "none") =>
        LET p    == Payload(arg.input)
            n    == Len(p)
            lenR == p[4]
            lenS == p[6 + lenR]
        IN  /\ \A k \in 1..Len(decoded.reads) :
                   /\ decoded.reads[k] >= 0
                   /\ decoded.reads[k] < n
                   /\ decoded.reads[k] \in {0, 1, 2, 3, 4, 5, 4 + p[4], 5 + p[4],
                                            6 + p[4], 7 + p[4]}
            /\ decoded.status = "ok" =>
                   /\ decoded.r = View(1, 4, lenR)
                   /\ decoded.s = View(1, 6 + lenR, lenS)
                   /\ decoded.r.off + decoded.r.len <= n
                   /\ decoded.s.off + decoded.s.len <= n
                   /\ Bytes(heap, decoded.r) = SubSeq(p, 5, 4 + lenR)
                   /\ Bytes(heap, decoded.s) = SubSeq(p, 7 + lenR, 6 + lenR + lenS)

\* an accepted 10-byte payload with padded R and S: every index 0..9 was read,
\* the last one being 7+lenR, and the S slice ends at the end of the payload
C11_Witness ==
    /\ ret.op = "decodeScriptSignature"
    /\ ret.status = "ok"
    /\ Len(chain) = 0
    /\ arg.input = Der(<<0, 129>>, <<0, 200>>, 3)
    /\ decoded.status = "ok"
    /\ {decoded.reads[k] : k \in 1..Len(decoded.reads)} = 0..9
    /\ decoded.reads[Len(decoded.reads)] = 9
    /\ decoded.s.off + decoded.s.len = Len(arg.input) - 1

====
